---- MODULE Spec2Model ----
(***************************************************************************)
(* The CLI's error type (cli/src/error.rs): Error(Option<Vec<String>>),    *)
(* its constructors, the From conversions, the wrap combinator and the     *)
(* message() renderer, followed along one command execution: a leaf        *)
(* operation fails, the failure is converted, enclosing layers wrap it,    *)
(* and the top of the call stack inspects and renders it.                  *)
(*                                                                         *)
(* A String is the sequence of its characters' code points, so that        *)
(* format!, insert_str, push_str and writeln! are concatenations that      *)
(* can be compared character by character.  Option<T> is a sequence of     *)
(* length 0 (None) or 1 (Some).                                            *)
(***************************************************************************)
EXTENDS Integers, Sequences, FiniteSets, TLC

\* ------------------------------------------------------------- bounds

\* Longest frame chain: the root frame plus MaxFrames - 1 wraps.
MaxFrames == 4
\* Largest 0-based row a query failure carries (9 renders as "10").
MaxRow == 9

\* ------------------------------------------------------ string literals

\* "Grammar error: "
GrammarPrefix == <<71, 114, 97, 109, 109, 97, 114, 32, 101, 114, 114, 111, 114, 58, 32>>
\* "Regex error: "
RegexPrefix == <<82, 101, 103, 101, 120, 32, 101, 114, 114, 111, 114, 58, 32>>
\* "Undefined symbol `"
UndefinedPrefix == <<85, 110, 100, 101, 102, 105, 110, 101, 100, 32, 115, 121, 109, 98, 111, 108, 32, 96>>
\* "`"
UndefinedSuffix == <<96>>
\* "Ignored error"
IgnoredText == <<73, 103, 110, 111, 114, 101, 100, 32, 101, 114, 114, 111, 114>>
\* "\nDetails:\n"
DetailsHeader == <<10, 68, 101, 116, 97, 105, 108, 115, 58, 10>>
\* "  "
Indent == <<32, 32>>
\* "\n"
Newline == <<10>>
\* "Query error at "
QueryErrorAt == <<81, 117, 101, 114, 121, 32, 101, 114, 114, 111, 114, 32, 97, 116, 32>>
\* ":"
Colon == <<58>>
\* ". "
DotSpace == <<46, 32>>
\* "Invalid capture name "
InvalidCaptureName == <<73, 110, 118, 97, 108, 105, 100, 32, 99, 97, 112, 116, 117, 114, 101, 32, 110, 97, 109, 101, 32>>
\* "Invalid field name "
InvalidFieldName == <<73, 110, 118, 97, 108, 105, 100, 32, 102, 105, 101, 108, 100, 32, 110, 97, 109, 101, 32>>
\* "Invalid node type "
InvalidNodeType == <<73, 110, 118, 97, 108, 105, 100, 32, 110, 111, 100, 101, 32, 116, 121, 112, 101, 32>>
\* "Invalid syntax:\n"
InvalidSyntax == <<73, 110, 118, 97, 108, 105, 100, 32, 115, 121, 110, 116, 97, 120, 58, 10>>
\* "Impossible pattern:\n"
ImpossiblePattern == <<73, 109, 112, 111, 115, 115, 105, 98, 108, 101, 32, 112, 97, 116, 116, 101, 114, 110, 58, 10>>
\* "Invalid predicate: "
InvalidPredicate == <<73, 110, 118, 97, 108, 105, 100, 32, 112, 114, 101, 100, 105, 99, 97, 116, 101, 58, 32>>

\* ------------------------------------------------------------- inputs

\* ""
TxtEmpty == <<>>
\* "a"
TxtA == <<97>>
\* "b"
TxtB == <<98>>
\* "grammar.js"
GrammarJs == <<103, 114, 97, 109, 109, 97, 114, 46, 106, 115>>
\* "unexpected token"
UnexpectedToken == <<117, 110, 101, 120, 112, 101, 99, 116, 101, 100, 32, 116, 111, 107, 101, 110>>
\* "bad rule"
BadRule == <<98, 97, 100, 32, 114, 117, 108, 101>>
\* "foo"
Foo == <<102, 111, 111>>

\* Message texts handed to constructors, carried by failures, returned by
\* context suppliers.
Texts == {TxtEmpty, TxtA, TxtB}
\* Texts handed to the named constructors.
CtorTexts == Texts \cup {BadRule, Foo}
\* Paths and messages of query failures.
QueryPaths == {GrammarJs, TxtA}
QueryMessages == {UnexpectedToken, TxtB}

\* ------------------------------------------------------------- Option

None == <<>>
Some(x) == <<x>>
IsNone(o) == o = <<>>
IsSome(o) == o # <<>>
Unwrap(o) == o[1]

\* ------------------------------------------- Error: constructors (l.13-41)

\* String::insert_str(idx, string)
InsertStr(s, idx, string) ==
    SubSeq(s, 1, idx) \o string \o SubSeq(s, idx + 1, Len(s))

\* Display of an unsigned integer: its decimal digits.
RECURSIVE Decimal(_)
Decimal(n) ==
    IF n < 10 THEN <<48 + n>> ELSE Decimal(n \div 10) \o <<48 + (n % 10)>>

\* pub fn grammar(message: &str) -> Self
grammar(message) == Some(<<GrammarPrefix \o message>>)

\* Mutant of regex: the prefix pushed at the end.
regex_appended(message) == Some(<<InsertStr(message, Len(message), RegexPrefix)>>)

\* pub fn regex(mut message: String) -> Self
regex(message) == Some(<<InsertStr(message, 0, RegexPrefix)>>)

\* pub fn undefined_symbol(name: &str) -> Self
undefined_symbol(name) == Some(<<UndefinedPrefix \o name \o UndefinedSuffix>>)

\* pub fn new(message: String) -> Self
new(message) == Some(<<message>>)

\* pub fn new_ignored() -> Self
new_ignored == None

\* Mutant of is_ignored: is_some() for is_none().
is_ignored_is_some(self) == IsSome(self)

\* pub fn is_ignored(&self) -> bool
is_ignored(self) == IsNone(self)

\* pub fn err<T>(message: String) -> Result<T>: the payload of the Err.
err_payload(message) == new(message)

\* ----------------------------------------------- Error::message (l.56-70)

\* Mutant of LastOf: the last element of e[0..e.len() - 1].
LastOfButOne(e) == IF Len(e) <= 1 THEN None ELSE Some(e[Len(e) - 1])

\* slice::last
LastOf(e) == IF Len(e) = 0 THEN None ELSE Some(e[Len(e)])

\* Mutant of DetailLines: the slice walked without .rev().
RECURSIVE DetailLinesForward(_, _)
DetailLinesForward(e, i) ==
    IF i = 0 THEN <<>>
    ELSE DetailLinesForward(e, i - 1) \o Indent \o e[i] \o Newline

\* for msg in e[0..e.len() - 1].iter().rev() { writeln!(&mut result, "  {}", msg) }
\* with i the number of elements of the slice not yet visited.
RECURSIVE DetailLines(_, _)
DetailLines(e, i) ==
    IF i = 0 THEN <<>>
    ELSE Indent \o e[i] \o Newline \o DetailLines(e, i - 1)

\* pub fn message(&self) -> String.  [panic |-> TRUE] is the unwrap of the
\* last frame failing.
message(self) ==
    IF IsNone(self) THEN [panic |-> FALSE, text |-> IgnoredText]
    ELSE LET e == Unwrap(self)
             last == LastOf(e)
         IN  IF IsNone(last) THEN [panic |-> TRUE, text |-> <<>>]
             ELSE [panic |-> FALSE,
                   text |-> IF Len(e) > 1
                            THEN Unwrap(last) \o DetailsHeader
                                   \o DetailLines(e, Len(e) - 1)
                            ELSE Unwrap(last)]

\* ------------------------------------------------ conversions (l.73-157)

QueryErrorKinds == {"Capture", "Field", "NodeType", "Syntax", "Structure", "Predicate"}
IoErrorKinds == {"BrokenPipe", "NotFound", "Other"}

\* The foreign failure types with a From impl, in the order of the source.
DisplayTypes == {"tags", "json", "glob_pattern", "glob", "libloading",
                 "regex_syntax", "test_highlight", "walkdir"}

\* A value handed to into(): a foreign failure, or an Error (type "error",
\* the Error in val).  text is the failure's rendering (Display, or Debug for
\* the highlighter's), or the String itself.
Failure(type, kind, text, path, row, val) ==
    [type |-> type, kind |-> kind, text |-> text, path |-> path, row |-> row, val |-> val]

\* Mutant of from_query: the row reported 0-based.
from_query_zero_based(path, error) ==
    LET msg == QueryErrorAt \o path \o Colon \o Decimal(error.row) \o DotSpace
        clause ==
            CASE error.kind = "Capture"   -> InvalidCaptureName \o error.text
              [] error.kind = "Field"     -> InvalidFieldName \o error.text
              [] error.kind = "NodeType"  -> InvalidNodeType \o error.text
              [] error.kind = "Syntax"    -> InvalidSyntax \o error.text
              [] error.kind = "Structure" -> ImpossiblePattern \o error.text
              [] error.kind = "Predicate" -> InvalidPredicate \o error.text
    IN  new(msg \o clause)

\* impl From<(&str, QueryError)> for Error
from_query(path, error) ==
    LET msg == QueryErrorAt \o path \o Colon \o Decimal(error.row + 1) \o DotSpace
        clause ==
            CASE error.kind = "Capture"   -> InvalidCaptureName \o error.text
              [] error.kind = "Field"     -> InvalidFieldName \o error.text
              [] error.kind = "NodeType"  -> InvalidNodeType \o error.text
              [] error.kind = "Syntax"    -> InvalidSyntax \o error.text
              [] error.kind = "Structure" -> ImpossiblePattern \o error.text
              [] error.kind = "Predicate" -> InvalidPredicate \o error.text
    IN  new(msg \o clause)

\* impl From<tree_sitter_highlight::Error> for Error: format!("{:?}", error)
from_highlight(error) == new(error.text)

\* Mutant of from_io: no broken-pipe case.
from_io_always_reported(error) == new(error.text)

\* impl From<io::Error> for Error
from_io(error) ==
    IF error.kind = "BrokenPipe" THEN new_ignored ELSE new(error.text)

\* impl From<String> for Error
from_string(error) == new(error)

\* The impls that are Error::new(error.to_string()) (tags, serde_json, glob,
\* libloading, regex_syntax, walkdir) or Error::new(error.message())
\* (test_highlight::Failure).
from_display(error) == new(error.text)

\* e.into() with E: Into<Error>: the From impl of e's type; an Error converts
\* to itself.
into(e) ==
    CASE e.type = "error"     -> e.val
      [] e.type = "query"     -> from_query(e.path, e)
      [] e.type = "highlight" -> from_highlight(e)
      [] e.type = "io"        -> from_io(e)
      [] e.type = "string"    -> from_string(e.text)
      [] OTHER                -> from_display(e)

\* ------------------------------------------------- Error::wrap (l.43-54)

\* Mutant of wrap: message_fn run when the closure is built.
wrap_eager(message_fn, evals) == [closure |-> Some(message_fn), evals |-> evals + 1]

\* wrap(message_fn): building the closure.  evals is the number of times the
\* supplier has run so far; the closure captures message_fn unevaluated.
wrap(message_fn, evals) == [closure |-> Some(message_fn), evals |-> evals]

\* Mutant of wrap_closure: an ignored Error returned as it came.
wrap_closure_passes_ignored(message_fn, e) ==
    LET result == into(e)
    IN  IF IsSome(result)
        THEN [panic |-> FALSE,
              result |-> Some(Some(Append(Unwrap(result), message_fn))),
              evals |-> 1]
        ELSE [panic |-> FALSE, result |-> Some(None), evals |-> 0]

\* Mutant of wrap_closure: an ignored Error turned into a reportable one.
wrap_closure_reports_ignored(message_fn, e) ==
    LET result == into(e)
    IN  IF IsSome(result)
        THEN [panic |-> FALSE,
              result |-> Some(Some(Append(Unwrap(result), message_fn))),
              evals |-> 1]
        ELSE [panic |-> FALSE, result |-> Some(Some(<<message_fn>>)), evals |-> 1]

\* Mutant of wrap_closure: a message equal to the last frame is not pushed.
wrap_closure_dedup(message_fn, e) ==
    LET result == into(e)
    IN  IF IsSome(result)
        THEN [panic |-> FALSE,
              result |-> Some(Some(IF Unwrap(result)[Len(Unwrap(result))] = message_fn
                                   THEN Unwrap(result)
                                   ELSE Append(Unwrap(result), message_fn))),
              evals |-> 1]
        ELSE [panic |-> TRUE, result |-> None, evals |-> 0]

\* The closure |e| { ... } applied to e, message_fn being a supplier that
\* returns the text message_fn.  evals counts the supplier's runs.
wrap_closure(message_fn, e) ==
    LET result == into(e)
    IN  IF IsSome(result)
        THEN [panic |-> FALSE,
              result |-> Some(Some(Append(Unwrap(result), message_fn))),
              evals |-> 1]
        ELSE [panic |-> TRUE, result |-> None, evals |-> 0]

\* ----------------------------------------------------- failure values

NoKind == "-"

\* The argument of a named constructor, recorded as the Error's origin.
CtorCall(ctor, text) == Failure(ctor, NoKind, text, <<>>, 0, None)

\* An Error handed on to an enclosing layer.
ErrorValue(error) == Failure("error", NoKind, <<>>, <<>>, 0, error)

QueryRows == {0, 4, MaxRow}

QueryFailures ==
    {Failure("query", k, m, p, r, None) :
        k \in QueryErrorKinds, m \in QueryMessages, p \in QueryPaths, r \in QueryRows}

IoFailures == {Failure("io", k, m, <<>>, 0, None) : k \in IoErrorKinds, m \in Texts}

OtherFailures ==
    {Failure(t, NoKind, m, <<>>, 0, None) :
        t \in DisplayTypes \cup {"highlight", "string"}, m \in Texts}

\* Every foreign failure value a producer can raise.
Foreign == QueryFailures \cup IoFailures \cup OtherFailures

\* -------------------------------------------------------------- state

VARIABLES
    pc,       \* "running": no failure yet; "failing": an Error propagates;
              \* "panic_wrap", "panic_unwrap": the process aborted
    err,      \* Option<Error>: the Error being propagated
    closure,  \* Option<String>: the closure wrap() returned and nobody has
              \* called yet, as the text its message_fn will return
    evals,    \* how many times a message_fn has been run
    out,      \* Option<String>: what message() returned for err
    ign,      \* Option<bool>: what is_ignored() returned for err
    origin,   \* Option<Failure>: the call or failure err was created from
    ctx,      \* the texts the closures that returned err got from message_fn
    last      \* Option: the argument and message_fn of the last closure call

vars == <<pc, err, closure, evals, out, ign, origin, ctx, last>>

Init ==
    /\ pc = "running"
    /\ err = None
    /\ closure = None
    /\ evals = 0
    /\ out = None
    /\ ign = None
    /\ origin = None
    /\ ctx = <<>>
    /\ last = None

\* A leaf operation is running and no enclosing layer waits with a closure.
AtLeaf == pc = "running" /\ closure = None

\* The leaf operation fails with the Error `error`, created by `call`.
Raise(error, call) ==
    /\ pc' = "failing"
    /\ err' = Some(error)
    /\ origin' = Some(call)
    /\ UNCHANGED <<closure, evals, out, ign, ctx, last>>

CallNew ==
    \E m \in CtorTexts :
        /\ AtLeaf
        /\ Raise(new(m), CtorCall("new", m))

CallGrammar ==
    \E m \in CtorTexts :
        /\ AtLeaf
        /\ Raise(grammar(m), CtorCall("grammar", m))

CallRegex ==
    \E m \in CtorTexts :
        /\ AtLeaf
        /\ Raise(regex(m), CtorCall("regex", m))

CallUndefinedSymbol ==
    \E m \in CtorTexts :
        /\ AtLeaf
        /\ Raise(undefined_symbol(m), CtorCall("undefined_symbol", m))

CallNewIgnored ==
    /\ AtLeaf
    /\ Raise(new_ignored, CtorCall("new_ignored", <<>>))

CallErr ==
    \E m \in CtorTexts :
        /\ AtLeaf
        /\ Raise(err_payload(m), CtorCall("err", m))

\* A foreign failure converted where it is propagated (the ? operator).
Convert ==
    \E f \in Foreign :
        /\ AtLeaf
        /\ Raise(into(f), f)

\* An enclosing layer calls wrap(message_fn) for the operation it is running
\* or whose failure it is handing on.
CallWrap ==
    \E m \in Texts :
        /\ pc \in {"running", "failing"}
        /\ closure = None
        /\ Len(ctx) + 1 < MaxFrames
        /\ LET w == wrap(m, evals)
           IN  /\ closure' = w.closure
               /\ evals' = w.evals
        /\ UNCHANGED <<pc, err, out, ign, origin, ctx, last>>

\* The operation succeeded: the closure is dropped without being called.
Succeed ==
    /\ pc = "running"
    /\ IsSome(closure)
    /\ closure' = None
    /\ UNCHANGED <<pc, err, evals, out, ign, origin, ctx, last>>

\* The closure is called on e: the propagating Error, or the foreign failure
\* the operation has just failed with.
CallClosure ==
    /\ pc \in {"running", "failing"}
    /\ IsSome(closure)
    /\ \E e \in IF pc = "failing" THEN {ErrorValue(Unwrap(err))} ELSE Foreign :
        LET message_fn == Unwrap(closure)
            r == wrap_closure(message_fn, e)
        IN  /\ pc' = IF r.panic THEN "panic_wrap" ELSE "failing"
            /\ err' = r.result
            /\ evals' = evals + r.evals
            /\ ctx' = IF r.panic THEN ctx ELSE Append(ctx, message_fn)
            /\ origin' = IF pc = "running" THEN Some(e) ELSE origin
            /\ last' = Some([e |-> e, message_fn |-> message_fn])
    /\ closure' = None
    /\ out' = None
    /\ ign' = None

\* message() on the propagating Error.
CallMessage ==
    /\ pc = "failing"
    /\ LET r == message(Unwrap(err))
       IN  /\ pc' = IF r.panic THEN "panic_unwrap" ELSE pc
           /\ out' = IF r.panic THEN None ELSE Some(r.text)
    /\ UNCHANGED <<err, closure, evals, ign, origin, ctx, last>>

\* is_ignored() on the propagating Error.
CallIsIgnored ==
    /\ pc = "failing"
    /\ ign' = Some(is_ignored(Unwrap(err)))
    /\ UNCHANGED <<pc, err, closure, evals, out, origin, ctx, last>>

Next ==
    \/ CallNew
    \/ CallGrammar
    \/ CallRegex
    \/ CallUndefinedSymbol
    \/ CallNewIgnored
    \/ CallErr
    \/ Convert
    \/ CallWrap
    \/ Succeed
    \/ CallClosure
    \/ CallMessage
    \/ CallIsIgnored

Spec == Init /\ [][Next]_vars

\* ------------------------------------------------------------ claims

\* The propagating Error and its frames.
Cur == Unwrap(err)
Frames == Unwrap(Cur)
Origin == Unwrap(origin)
Failing == pc = "failing"
\* err came from a call or conversion and no closure has returned it since.
Unwrapped == Failing /\ ctx = <<>>

\* "Grammar error: bad rule"
ExGrammar == <<71, 114, 97, 109, 109, 97, 114, 32, 101, 114, 114, 111, 114, 58, 32, 98, 97, 100, 32, 114, 117, 108, 101>>
\* "Undefined symbol `foo`"
ExUndefined == <<85, 110, 100, 101, 102, 105, 110, 101, 100, 32, 115, 121, 109, 98, 111, 108, 32, 96, 102, 111, 111, 96>>
\* "Query error at grammar.js:5. Invalid syntax:\nunexpected token"
ExQuery == <<81, 117, 101, 114, 121, 32, 101, 114, 114, 111, 114, 32, 97, 116, 32, 103, 114, 97, 109, 109, 97, 114, 46, 106, 115, 58, 53, 46, 32, 73, 110, 118, 97, 108, 105, 100, 32, 115, 121, 110, 116, 97, 120, 58, 10, 117, 110, 101, 120, 112, 101, 99, 116, 101, 100, 32, 116, 111, 107, 101, 110>>
\* "b\nDetails:\n  a\n"
ExWrapAB == <<98, 10, 68, 101, 116, 97, 105, 108, 115, 58, 10, 32, 32, 97, 10>>
\* "a\nDetails:\n  b\n  \n  a\n"
ExWrapAEBA == <<97, 10, 68, 101, 116, 97, 105, 108, 115, 58, 10, 32, 32, 98, 10, 32, 32, 10, 32, 32, 97, 10>>

\* The details of the chain ms = <<m1, ..., m(k-1)>>: one line "  " + mi + "\n"
\* each, m1 last.
RECURSIVE DetailsOf(_)
DetailsOf(ms) ==
    IF ms = <<>> THEN <<>>
    ELSE DetailsOf(Tail(ms)) \o <<32, 32>> \o Head(ms) \o <<10>>

\* The rendering the chain ms = <<m1, ..., mk>>, k >= 2, is to have.
ChainRender(ms) ==
    ms[Len(ms)] \o DetailsHeader \o DetailsOf(SubSeq(ms, 1, Len(ms) - 1))

\* C1: an Error built by new(m1) and wrapped with suppliers returning m2, ...,
\* mk (k >= 2) renders as mk, "\nDetails:\n", then "  " + mi + "\n" for
\* i = k-1 down to 1; for k = 2 that is m2 + "\nDetails:\n  " + m1 + "\n".
C1_WrapChainRender ==
    (Failing /\ IsSome(out) /\ Origin.type = "new" /\ ctx # <<>>) =>
        /\ Unwrap(out) = ChainRender(<<Origin.text>> \o ctx)
        /\ Len(ctx) = 1 =>
              Unwrap(out) = ctx[1] \o DetailsHeader \o Indent \o Origin.text \o Newline
        /\ (Origin.text = TxtA /\ ctx = <<TxtB>>) => Unwrap(out) = ExWrapAB
        /\ (Origin.text = TxtA /\ ctx = <<TxtEmpty, TxtB, TxtA>>) =>
              Unwrap(out) = ExWrapAEBA

\* C1's case: new(m1) wrapped three times (k = 4), the message rendered.
C1_Witness ==
    /\ Failing /\ IsSome(out) /\ Origin.type = "new"
    /\ Origin.text = TxtA /\ ctx = <<TxtEmpty, TxtB, TxtA>>

\* C2: converting a broken-pipe I/O failure yields an ignored Error;
\* converting any other I/O failure yields a reportable Error of exactly one
\* frame, the failure's message text, which message() returns as it is.
C2_IoConversion ==
    (Unwrapped /\ Origin.type = "io") =>
        IF Origin.kind = "BrokenPipe"
        THEN /\ Cur = None
             /\ IsSome(ign) => Unwrap(ign) = TRUE
        ELSE /\ Cur = Some(<<Origin.text>>)
             /\ IsSome(ign) => Unwrap(ign) = FALSE
             /\ IsSome(out) => Unwrap(out) = Origin.text

\* C2's case: a broken-pipe failure converted and found ignored.
C2_Witness ==
    /\ Unwrapped /\ Origin.type = "io" /\ Origin.kind = "BrokenPipe"
    /\ ign = Some(TRUE)

\* C3: the closure wrap returned, called on an ignored Error, panics: it
\* returns no Error, neither the ignored one nor one with the new frame.
C3_WrapIgnoredPanics ==
    (IsSome(last) /\ Unwrap(last).e.type = "error" /\ Unwrap(last).e.val = None) =>
        /\ pc = "panic_wrap"
        /\ err = None
        /\ ctx = <<>>

\* C3's case: the closure was called on an ignored Error.
C3_Witness ==
    /\ IsSome(last) /\ Unwrap(last).e.type = "error" /\ Unwrap(last).e.val = None
    /\ pc = "panic_wrap"

\* C4: an Error is either ignored, with no frames, or reportable with at
\* least one frame; is_ignored() is true exactly for the former, so it is true
\* of new_ignored() and false of new(m).
C4_VariantInvariant ==
    Failing =>
        /\ \/ Cur = None
           \/ IsSome(Cur) /\ Len(Frames) >= 1
        /\ IsSome(ign) => (Unwrap(ign) = TRUE <=> Cur = None)
        /\ (IsSome(ign) /\ Origin.type = "new_ignored") => Unwrap(ign) = TRUE
        /\ (IsSome(ign) /\ Origin.type = "new") => Unwrap(ign) = FALSE

\* C4's case: is_ignored() has answered for new_ignored().
C4_Witness ==
    Failing /\ Origin.type = "new_ignored" /\ ign = Some(TRUE)

\* C5: an Error from a named constructor, not wrapped, renders as its sole
\* frame: m, "Grammar error: " + m, "Regex error: " + m, "Undefined symbol `"
\* + m + "`".
C5_ConstructorRender ==
    (Unwrapped /\ IsSome(out)) =>
        LET m == Origin.text
            r == Unwrap(out)
        IN  /\ Origin.type = "new" => r = m
            /\ Origin.type = "grammar" => r = GrammarPrefix \o m
            /\ Origin.type = "regex" => r = RegexPrefix \o m
            /\ Origin.type = "undefined_symbol" => r = UndefinedPrefix \o m \o <<96>>
            /\ (Origin.type = "grammar" /\ m = BadRule) => r = ExGrammar
            /\ (Origin.type = "undefined_symbol" /\ m = Foo) => r = ExUndefined
            /\ Origin.type \in {"new", "grammar", "regex", "undefined_symbol"} =>
                  Cur = Some(<<r>>)

\* C5's case: regex("bad rule") rendered.
C5_Witness ==
    Unwrapped /\ IsSome(out) /\ Origin.type = "regex" /\ Origin.text = BadRule

\* C6: message() never panics, leaves the Error as it is, depends on the
\* frames alone, and returns "Ignored error" for the ignored variant.
C6_MessageTotalPure ==
    /\ [](pc # "panic_unwrap")
    /\ []((Failing /\ IsSome(out) /\ Cur = None) => Unwrap(out) = IgnoredText)
    /\ []((Failing /\ IsSome(out)) => Unwrap(out) = message(Cur).text)
    /\ [][(IsSome(out') /\ out' # out) => (err' = err /\ pc' = pc)]_vars

\* C6's case: message() has returned for an ignored Error.
C6_Witness ==
    Failing /\ Cur = None /\ out = Some(IgnoredText)

\* The clause a query failure's kind selects.
QueryClause(kind, m) ==
    CASE kind = "Capture"   -> InvalidCaptureName \o m
      [] kind = "Field"     -> InvalidFieldName \o m
      [] kind = "NodeType"  -> InvalidNodeType \o m
      [] kind = "Syntax"    -> InvalidSyntax \o m
      [] kind = "Structure" -> ImpossiblePattern \o m
      [] kind = "Predicate" -> InvalidPredicate \o m

\* C7: a (path, query failure) pair converts to a single frame "Query error at
\* {path}:{row+1}. " followed by the clause of the failure's kind; row 4 of
\* grammar.js, Syntax, "unexpected token" gives
\* "Query error at grammar.js:5. Invalid syntax:\nunexpected token".
C7_QueryConversion ==
    (Unwrapped /\ Origin.type = "query") =>
        LET o == Origin
        IN  /\ Cur = Some(<<QueryErrorAt \o o.path \o Colon \o Decimal(o.row + 1)
                              \o DotSpace \o QueryClause(o.kind, o.text)>>)
            /\ (o.path = GrammarJs /\ o.row = 4 /\ o.kind = "Syntax"
                  /\ o.text = UnexpectedToken) => Cur = Some(<<ExQuery>>)
            /\ IsSome(out) => Cur = Some(<<Unwrap(out)>>)

\* C7's case: the failure at row 4 of grammar.js converted and rendered.
C7_Witness ==
    /\ Unwrapped /\ Origin = Failure("query", "Syntax", UnexpectedToken, GrammarJs, 4, None)
    /\ out = Some(ExQuery)

\* C8: the closure returns the converted Error's frames followed by one new
\* last frame, supplier(): nothing reordered, dropped or deduplicated, and an
\* Error handed in keeps its own frames.
C8_WrapAppendsOneFrame ==
    (Failing /\ IsSome(last)) =>
        LET e == Unwrap(last).e
            m == Unwrap(last).message_fn
        IN  /\ IsSome(Cur)
            /\ Frames = Unwrap(into(e)) \o <<m>>
            /\ e.type = "error" => Frames = Unwrap(e.val) \o <<m>>
            /\ Len(Frames) = Len(ctx) + 1
            /\ Tail(Frames) = ctx

\* C8's case: an Error wrapped twice with the same message.
C8_Witness ==
    /\ Failing /\ IsSome(last) /\ Unwrap(last).e.type = "error"
    /\ Len(ctx) = 2 /\ ctx[1] = ctx[2]
    /\ Frames[2] = Frames[3]

\* C9: the supplier runs once for every closure call that returns and never
\* otherwise: not when wrap() builds the closure, not when the closure is
\* dropped, not when the closure panics on an ignored Error.
C9_LazySupplier ==
    /\ evals = Len(ctx)
    /\ pc = "running" => evals = 0
    /\ pc = "panic_wrap" => evals = 0

\* C9's case: two closures have returned and a third is built and not called.
C9_Witness ==
    Failing /\ IsSome(closure) /\ Len(ctx) = 2 /\ evals = 2

\* Whether into() of the failure e is the ignored variant.
Ignorable(e) ==
    \/ e.type = "error" /\ e.val = None
    \/ e.type = "io" /\ e.kind = "BrokenPipe"

\* C10: an ignored Error is ignored from its creation and has passed through
\* no wrap; a wrapped Error is reportable; the closure called on a broken-pipe
\* I/O failure panics.
C10_IgnoredNeverWrapped ==
    /\ (Failing /\ ctx # <<>>) => IsSome(Cur)
    /\ (Failing /\ Cur = None) =>
          /\ ctx = <<>>
          /\ last = None
          /\ \/ Origin.type = "new_ignored"
             \/ Origin.type = "io" /\ Origin.kind = "BrokenPipe"
    /\ (IsSome(last) /\ Unwrap(last).e.type = "io"
          /\ Unwrap(last).e.kind = "BrokenPipe") =>
          pc = "panic_wrap" /\ err = None
    /\ pc = "panic_wrap" => IsSome(last) /\ Ignorable(Unwrap(last).e)

\* C10's case: the closure was called on a broken-pipe I/O failure.
C10_Witness ==
    /\ IsSome(last) /\ Unwrap(last).e.type = "io"
    /\ Unwrap(last).e.kind = "BrokenPipe"
    /\ pc = "panic_wrap"

====
